---- MODULE Spec2Model ----
(***************************************************************************)
(* The Somfy thermostat climate entity (custom_components/somfy/climate.py)*)
(* as a state machine: the vendor handle self.climate as the platform sees *)
(* it, the property reads, and the three write commands with the vendor     *)
(* setter calls each of them makes.                                         *)
(*                                                                          *)
(* Python values: an Optional temperature is <<>> (None) or <<v>>; enum     *)
(* members of pymfy are the strings "TargetMode.X", "HvacState.X", ...,     *)
(* which are never equal to a platform string such as "away" (an Enum       *)
(* member is not equal to a str); a str-valued None is the string "None".   *)
(***************************************************************************)
EXTENDS Integers, Sequences, FiniteSets

VARIABLES climate, op, arg_temperature, arg_mode, calls, errors, raised, result

vars == <<climate, op, arg_temperature, arg_mode, calls, errors, raised, result>>

\* ---------------------------------------------------------------- bounds
\* Temperatures range over -1 .. MaxTemp (integers stand for the floats).
MaxTemp == 2

\* ------------------------------------------------------- python helpers
None == <<>>
Some(v) == <<v>>
NoneStr == "None"

Temps == (0 - 1)..MaxTemp
OptTemps == {None} \cup {Some(v) : v \in Temps}
\* the three profile temperatures the device stores
ProfileTemps == {Some(MaxTemp - 1), Some(MaxTemp)}

\* bool(x) is False for None and for 0 (and 0.0)
Falsy(t) == t = None \/ t[1] = 0

\* dict(items): a later item with the same key replaces an earlier one
DictOf(items) ==
    [k \in {items[i][1] : i \in DOMAIN items} |->
        LET last == CHOOSE i \in DOMAIN items :
                        /\ items[i][1] = k
                        /\ \A j \in DOMAIN items : items[j][1] = k => j <= i
        IN  items[last][2]]

\* d.get(k)
Get(d, k) == IF k \in DOMAIN d THEN d[k] ELSE NoneStr

\* list(d.values())
Values(d) == {d[k] : k \in DOMAIN d}

\* ------------------------------------------------ platform constants
CURRENT_HVAC_HEAT == "heating"
CURRENT_HVAC_IDLE == "idle"
HVAC_MODE_AUTO == "auto"
HVAC_MODE_COOL == "cool"
HVAC_MODE_HEAT == "heat"
PRESET_ACTIVITY == "activity"
PRESET_AWAY == "away"
PRESET_HOME == "home"
PRESET_NONE == "none"
PRESET_SLEEP == "sleep"

\* --------------------------------------------------- vendor enumerations
TargetMode_AT_HOME == "TargetMode.AT_HOME"
TargetMode_AWAY == "TargetMode.AWAY"
TargetMode_SLEEP == "TargetMode.SLEEP"
TargetMode_MANUAL == "TargetMode.MANUAL"
TargetMode_GEOFENCING == "TargetMode.GEOFENCING"
TargetMode_FREEZE == "TargetMode.FREEZE"
TargetMode == {TargetMode_AT_HOME, TargetMode_AWAY, TargetMode_SLEEP,
               TargetMode_MANUAL, TargetMode_GEOFENCING, TargetMode_FREEZE}

HvacState_HEAT == "HvacState.HEAT"
HvacState_COOL == "HvacState.COOL"
HvacState_OTHER == "HvacState.OTHER"
HvacState == {HvacState_HEAT, HvacState_COOL, HvacState_OTHER}

RegulationState_TIMETABLE == "RegulationState.TIMETABLE"
RegulationState_MANUAL == "RegulationState.MANUAL"
RegulationState == {RegulationState_TIMETABLE, RegulationState_MANUAL}

DurationType_NEXT_MODE == "DurationType.NEXT_MODE"
DurationType_FURTHER_NOTICE == "DurationType.FURTHER_NOTICE"

\* ------------------------------------------------------- mapping tables
PRESETS_ITEMS_Collapsed ==
    << <<TargetMode_AT_HOME, PRESET_HOME>>,
       <<TargetMode_AWAY, PRESET_AWAY>>,
       <<TargetMode_SLEEP, PRESET_SLEEP>>,
       <<TargetMode_MANUAL, PRESET_NONE>>,
       <<TargetMode_GEOFENCING, PRESET_AWAY>> >>

PRESETS_ITEMS ==
    << <<TargetMode_AT_HOME, PRESET_HOME>>,
       <<TargetMode_AWAY, PRESET_AWAY>>,
       <<TargetMode_SLEEP, PRESET_SLEEP>>,
       <<TargetMode_MANUAL, PRESET_NONE>>,
       <<TargetMode_GEOFENCING, PRESET_ACTIVITY>> >>

PRESETS_MAPPING == DictOf(PRESETS_ITEMS)

\* {v: k for k, v in PRESETS_MAPPING.items()}
REVERSE_PRESET_MAPPING ==
    DictOf([i \in DOMAIN PRESETS_ITEMS |->
               <<PRESETS_ITEMS[i][2], PRESETS_ITEMS[i][1]>>])

HVAC_MODES_MAPPING ==
    DictOf(<< <<HvacState_COOL, HVAC_MODE_COOL>>,
              <<HvacState_HEAT, HVAC_MODE_HEAT>> >>)

\* ------------------------------------------------------ the vendor handle
\* What self.climate reports: one record per Thermostat handle.
Thermostat ==
    [ambient_temperature : OptTemps,
     target_temperature : OptTemps,
     hvac_state : HvacState,
     regulation_state : RegulationState,
     target_mode : TargetMode,
     at_home_temperature : ProfileTemps,
     away_temperature : ProfileTemps,
     night_temperature : ProfileTemps]

\* the values one reported status of the handle ranges over
FieldValues(f) ==
    CASE f \in {"ambient_temperature", "target_temperature"} -> OptTemps
      [] f = "hvac_state" -> HvacState
      [] f = "regulation_state" -> RegulationState
      [] f = "target_mode" -> TargetMode
      [] OTHER -> ProfileTemps

\* the vendor setter calls, as the handle receives them
set_target(mode, temperature, duration) ==
    [name |-> "set_target", mode |-> mode, temperature |-> temperature,
     duration |-> duration]

cancel_target ==
    [name |-> "cancel_target", mode |-> NoneStr, temperature |-> None,
     duration |-> NoneStr]

\* ------------------------------------------------------------- reads
current_temperature(c) == c.ambient_temperature

target_temperature(c) == c.target_temperature

hvac_mode_IgnoresTimetable(c) == Get(HVAC_MODES_MAPPING, c.hvac_state)

hvac_mode(c) ==
    IF c.regulation_state = RegulationState_TIMETABLE
    THEN HVAC_MODE_AUTO
    ELSE Get(HVAC_MODES_MAPPING, c.hvac_state)

hvac_action(c) ==
    IF Falsy(current_temperature(c)) \/ Falsy(target_temperature(c))
    THEN CURRENT_HVAC_IDLE
    ELSE IF /\ hvac_mode(c) = HVAC_MODE_HEAT
            /\ current_temperature(c)[1] < target_temperature(c)[1]
    THEN CURRENT_HVAC_HEAT
    ELSE IF /\ hvac_mode(c) = HVAC_MODE_COOL
            /\ current_temperature(c)[1] > target_temperature(c)[1]
    THEN CURRENT_HVAC_HEAT
    ELSE CURRENT_HVAC_IDLE

\* the lookup goes through REVERSE_PRESET_MAPPING, whose keys are presets
preset_mode(c) == Get(REVERSE_PRESET_MAPPING, c.target_mode)

preset_modes == Values(PRESETS_MAPPING)

\* ------------------------------------------------------------- writes
\* Each *_do operator is the body of the command: the vendor calls it makes
\* the errors it logs, in order, and whether an exception reaches the caller.
Outcome(cs, es) == [calls |-> cs, errors |-> es, raised |-> FALSE]

\* REVERSE_PRESET_MAPPING[preset_mode] raises KeyError on a missing key,
\* before set_target is called
SetMappedTarget(preset, temperature) ==
    IF preset \in DOMAIN REVERSE_PRESET_MAPPING
    THEN Outcome(<<set_target(REVERSE_PRESET_MAPPING[preset], temperature,
                              DurationType_NEXT_MODE)>>, <<>>)
    ELSE [calls |-> <<>>, errors |-> <<>>, raised |-> TRUE]

set_temperature_Retries(c, temperature) ==
    IF temperature = None
    THEN Outcome(<<>>, <<>>)
    ELSE Outcome(<<set_target(TargetMode_MANUAL, temperature, DurationType_NEXT_MODE),
                   set_target(TargetMode_MANUAL, temperature, DurationType_NEXT_MODE)>>,
                 <<>>)

set_temperature_do(c, temperature) ==
    IF temperature = None
    THEN Outcome(<<>>, <<>>)
    ELSE Outcome(<<set_target(TargetMode_MANUAL, temperature, DurationType_NEXT_MODE)>>,
                 <<>>)

set_hvac_mode_NoEqualCheck(c, mode) ==
    IF mode = HVAC_MODE_AUTO
    THEN Outcome(<<cancel_target>>, <<>>)
    ELSE Outcome(<<set_target(TargetMode_MANUAL, target_temperature(c),
                              DurationType_FURTHER_NOTICE)>>, <<>>)

set_hvac_mode_do(c, mode) ==
    IF mode = hvac_mode(c)
    THEN Outcome(<<>>, <<>>)
    ELSE IF mode = HVAC_MODE_AUTO
    THEN Outcome(<<cancel_target>>, <<>>)
    ELSE Outcome(<<set_target(TargetMode_MANUAL, target_temperature(c),
                              DurationType_FURTHER_NOTICE)>>, <<>>)

set_preset_mode_SleepUsesAway(c, preset) ==
    IF preset_mode(c) = preset
    THEN Outcome(<<>>, <<>>)
    ELSE IF preset \in {PRESET_HOME, PRESET_AWAY, PRESET_SLEEP, PRESET_NONE}
    THEN LET temperature ==
                 IF preset = PRESET_HOME THEN c.at_home_temperature
                 ELSE IF preset = PRESET_AWAY THEN c.away_temperature
                 ELSE IF preset = PRESET_SLEEP THEN c.away_temperature
                 ELSE target_temperature(c)
         IN  SetMappedTarget(preset, temperature)
    ELSE Outcome(<<>>, <<preset>>)

set_preset_mode_do(c, preset) ==
    IF preset_mode(c) = preset
    THEN Outcome(<<>>, <<>>)
    ELSE IF preset \in {PRESET_HOME, PRESET_AWAY, PRESET_SLEEP, PRESET_NONE}
    THEN LET temperature ==
                 IF preset = PRESET_HOME THEN c.at_home_temperature
                 ELSE IF preset = PRESET_AWAY THEN c.away_temperature
                 ELSE IF preset = PRESET_SLEEP THEN c.night_temperature
                 ELSE target_temperature(c)
         IN  SetMappedTarget(preset, temperature)
    ELSE Outcome(<<>>, <<preset>>)

\* ------------------------------------------------------------ inputs
\* what the platform may pass to the commands
HvacModeArgs == {HVAC_MODE_AUTO, HVAC_MODE_HEAT, HVAC_MODE_COOL}
PresetArgs == {PRESET_HOME, PRESET_AWAY, PRESET_SLEEP, PRESET_NONE,
               PRESET_ACTIVITY, "bogus"}

\* ------------------------------------------------------------ actions
Init ==
    /\ climate \in Thermostat
    /\ op = "__init__"
    /\ arg_temperature = None
    /\ arg_mode = NoneStr
    /\ calls = <<>>
    /\ errors = <<>>
    /\ raised = FALSE
    /\ result = NoneStr

\* self.climate = Thermostat(self.device, self.api): the handle is rebuilt
\* on the latest data, in which one reported status has changed.
create_device ==
    /\ \E f \in DOMAIN climate : \E v \in FieldValues(f) :
          /\ v # climate[f]
          /\ climate' = [climate EXCEPT ![f] = v]
    /\ op' = "_create_device"
    /\ arg_temperature' = None
    /\ arg_mode' = NoneStr
    /\ calls' = <<>>
    /\ errors' = <<>>
    /\ raised' = FALSE
    /\ result' = NoneStr

Read(name, value) ==
    /\ op' = name
    /\ result' = value
    /\ arg_temperature' = None
    /\ arg_mode' = NoneStr
    /\ calls' = <<>>
    /\ errors' = <<>>
    /\ raised' = FALSE
    /\ UNCHANGED climate

read_hvac_mode == Read("hvac_mode", hvac_mode(climate))

read_hvac_action == Read("hvac_action", hvac_action(climate))

read_preset_mode == Read("preset_mode", preset_mode(climate))

Write(name, temperature, mode, outcome) ==
    /\ op' = name
    /\ arg_temperature' = temperature
    /\ arg_mode' = mode
    /\ calls' = outcome.calls
    /\ errors' = outcome.errors
    /\ raised' = outcome.raised
    /\ result' = NoneStr
    /\ UNCHANGED climate

set_temperature ==
    \E t \in OptTemps :
        Write("set_temperature", t, NoneStr, set_temperature_do(climate, t))

set_hvac_mode ==
    \E m \in HvacModeArgs :
        Write("set_hvac_mode", None, m, set_hvac_mode_do(climate, m))

set_preset_mode ==
    \E p \in PresetArgs :
        Write("set_preset_mode", None, p, set_preset_mode_do(climate, p))

Next ==
    \/ create_device
    \/ read_hvac_mode
    \/ read_hvac_action
    \/ read_preset_mode
    \/ set_temperature
    \/ set_hvac_mode
    \/ set_preset_mode

Spec == Init /\ [][Next]_vars

TypeOK ==
    /\ climate \in Thermostat
    /\ arg_temperature \in OptTemps
    /\ raised \in BOOLEAN

\* ------------------------------------------------------------- claims
SupportedTargetModes ==
    {TargetMode_AT_HOME, TargetMode_AWAY, TargetMode_SLEEP,
     TargetMode_MANUAL, TargetMode_GEOFENCING}
SupportedPresets ==
    {PRESET_HOME, PRESET_AWAY, PRESET_SLEEP, PRESET_NONE, PRESET_ACTIVITY}

\* the preset the forward table assigns to the device's target mode
ForwardPreset(c) ==
    CASE c.target_mode = TargetMode_AT_HOME -> PRESET_HOME
      [] c.target_mode = TargetMode_AWAY -> PRESET_AWAY
      [] c.target_mode = TargetMode_SLEEP -> PRESET_SLEEP
      [] c.target_mode = TargetMode_MANUAL -> PRESET_NONE
      [] c.target_mode = TargetMode_GEOFENCING -> PRESET_ACTIVITY
      [] OTHER -> NoneStr

\* the platform's cooling action, which climate.py does not import
CURRENT_HVAC_COOL == "cooling"

BothAvailable(c) ==
    current_temperature(c) # None /\ target_temperature(c) # None

\* C1: reading preset_mode returns the preset the forward table assigns to
\* the device's target mode (HOME, AWAY, SLEEP, NONE, ACTIVITY for AT_HOME,
\* AWAY, SLEEP, MANUAL, GEOFENCING), and "no value" only for a target mode
\* outside the supported set.
C1_PresetModeIsForwardLookup ==
    op = "preset_mode" =>
        /\ climate.target_mode \in SupportedTargetModes
              => result = ForwardPreset(climate)
        /\ result = NoneStr => climate.target_mode \notin SupportedTargetModes

\* C2: set_preset_mode(p), when the device's target mode is already the
\* vendor mode mapped to p, makes no vendor setter call and leaves the
\* device's target mode and target temperature as they were.
C2_SamePresetMakesNoCall ==
    (op = "set_preset_mode" /\ arg_mode \in SupportedPresets
        /\ ForwardPreset(climate) = arg_mode)
    => calls = <<>>

\* C3: set_preset_mode(p) with p different from the current preset: for
\* HOME, AWAY, SLEEP, NONE exactly one set_target with the mapped vendor
\* mode, the at-home, away, night or active target temperature, and the
\* NEXT_MODE duration; for any other p no vendor call, the unsupported
\* preset reported, and no error raised.
C3_SetPresetMode ==
    (op = "set_preset_mode" /\ arg_mode # preset_mode(climate)) =>
        /\ ~raised
        /\ arg_mode = PRESET_HOME =>
              /\ calls = <<set_target(TargetMode_AT_HOME,
                                      climate.at_home_temperature,
                                      DurationType_NEXT_MODE)>>
              /\ errors = <<>>
        /\ arg_mode = PRESET_AWAY =>
              /\ calls = <<set_target(TargetMode_AWAY,
                                      climate.away_temperature,
                                      DurationType_NEXT_MODE)>>
              /\ errors = <<>>
        /\ arg_mode = PRESET_SLEEP =>
              /\ calls = <<set_target(TargetMode_SLEEP,
                                      climate.night_temperature,
                                      DurationType_NEXT_MODE)>>
              /\ errors = <<>>
        /\ arg_mode = PRESET_NONE =>
              /\ calls = <<set_target(TargetMode_MANUAL,
                                      climate.target_temperature,
                                      DurationType_NEXT_MODE)>>
              /\ errors = <<>>
        /\ arg_mode \notin {PRESET_HOME, PRESET_AWAY, PRESET_SLEEP, PRESET_NONE}
              => calls = <<>> /\ errors = <<arg_mode>>

C3_Witness ==
    /\ op = "set_preset_mode"
    /\ arg_mode = PRESET_SLEEP
    /\ climate.target_mode = TargetMode_AT_HOME
    /\ climate.night_temperature # climate.away_temperature
    /\ calls = <<set_target(TargetMode_SLEEP, climate.night_temperature,
                            DurationType_NEXT_MODE)>>

\* C4: hvac_action is IDLE whenever the current or the target temperature is
\* None, and HEATING for every pair of available temperatures (zero and
\* negative ones included) with hvac_mode HEAT and current < target.
C4_HvacActionHeat ==
    op = "hvac_action" =>
        /\ ~BothAvailable(climate) => result = CURRENT_HVAC_IDLE
        /\ (/\ BothAvailable(climate)
            /\ hvac_mode(climate) = HVAC_MODE_HEAT
            /\ current_temperature(climate)[1] < target_temperature(climate)[1])
           => result = CURRENT_HVAC_HEAT

\* C5: with both temperatures available, hvac_mode COOL and current > target,
\* hvac_action is the cooling action, which is not the HEATING action.
C5_HvacActionCool ==
    (/\ op = "hvac_action"
     /\ BothAvailable(climate)
     /\ hvac_mode(climate) = HVAC_MODE_COOL
     /\ current_temperature(climate)[1] > target_temperature(climate)[1])
    => (result = CURRENT_HVAC_COOL /\ result # CURRENT_HVAC_HEAT)

\* C6: set_hvac_mode(m) makes no vendor call when m is the current hvac_mode;
\* otherwise exactly one cancel_target for AUTO, and for HEAT or COOL exactly
\* one set_target(MANUAL, active target temperature, FURTHER_NOTICE).
C6_SetHvacMode ==
    op = "set_hvac_mode" =>
        /\ ~raised
        /\ arg_mode = hvac_mode(climate) => calls = <<>>
        /\ (arg_mode # hvac_mode(climate) /\ arg_mode = HVAC_MODE_AUTO)
              => calls = <<cancel_target>>
        /\ (arg_mode # hvac_mode(climate)
              /\ arg_mode \in {HVAC_MODE_HEAT, HVAC_MODE_COOL})
              => calls = <<set_target(TargetMode_MANUAL,
                                      climate.target_temperature,
                                      DurationType_FURTHER_NOTICE)>>

C6_Witness ==
    /\ op = "set_hvac_mode"
    /\ arg_mode = HVAC_MODE_HEAT
    /\ climate.regulation_state = RegulationState_TIMETABLE
    /\ climate.target_temperature = Some(1)
    /\ calls = <<set_target(TargetMode_MANUAL, Some(1),
                            DurationType_FURTHER_NOTICE)>>

\* C7: hvac_mode is AUTO whenever the regulation state is TIMETABLE, whatever
\* the vendor HVAC state; otherwise HEAT for vendor HEAT, COOL for vendor
\* COOL, and "no value" (never AUTO) for any other vendor HVAC state.
C7_HvacMode ==
    op = "hvac_mode" =>
        /\ climate.regulation_state = RegulationState_TIMETABLE
              => result = HVAC_MODE_AUTO
        /\ climate.regulation_state # RegulationState_TIMETABLE =>
              /\ climate.hvac_state = HvacState_HEAT => result = HVAC_MODE_HEAT
              /\ climate.hvac_state = HvacState_COOL => result = HVAC_MODE_COOL
              /\ climate.hvac_state \notin {HvacState_HEAT, HvacState_COOL}
                    => result = NoneStr
              /\ result # HVAC_MODE_AUTO

C7_Witness ==
    /\ op = "hvac_mode"
    /\ climate.regulation_state = RegulationState_TIMETABLE
    /\ climate.hvac_state = HvacState_COOL
    /\ result = HVAC_MODE_AUTO

\* C8: the preset tables are a bijection between the five vendor target modes
\* and the five presets: mode -> preset -> mode and preset -> mode -> preset
\* are the identity, and no two modes share a preset; so the mode a
\* set_preset_mode call sends maps forward to the preset that was requested.
C8_PresetBijection ==
    /\ DOMAIN PRESETS_MAPPING = SupportedTargetModes
    /\ DOMAIN REVERSE_PRESET_MAPPING = SupportedPresets
    /\ \A m \in SupportedTargetModes :
          REVERSE_PRESET_MAPPING[PRESETS_MAPPING[m]] = m
    /\ \A p \in SupportedPresets :
          PRESETS_MAPPING[REVERSE_PRESET_MAPPING[p]] = p
    /\ \A m1, m2 \in SupportedTargetModes :
          PRESETS_MAPPING[m1] = PRESETS_MAPPING[m2] => m1 = m2
    /\ (op = "set_preset_mode" /\ calls # <<>>)
          => PRESETS_MAPPING[calls[1].mode] = arg_mode

C8_Witness ==
    /\ op = "set_preset_mode"
    /\ arg_mode = PRESET_AWAY
    /\ calls # <<>>
    /\ calls[1].mode = TargetMode_AWAY
    /\ PRESETS_MAPPING[calls[1].mode] = PRESET_AWAY

\* C9: every write command makes at most one vendor setter call (no retry),
\* and exactly one unless it is a no-op (absent temperature, requested
\* hvac mode or preset equal to the current one, unsupported preset);
\* set_temperature(v) calls set_target(MANUAL, v, NEXT_MODE) once when v is
\* present and nothing when v is absent.
C9_OneSetterPerWrite ==
    op \in {"set_temperature", "set_hvac_mode", "set_preset_mode"} =>
        /\ Len(calls) <= 1
        /\ \A i \in DOMAIN calls : calls[i].name \in {"set_target", "cancel_target"}
        /\ ~raised
        /\ op = "set_temperature" =>
              IF arg_temperature = None
              THEN calls = <<>>
              ELSE calls = <<set_target(TargetMode_MANUAL, arg_temperature,
                                        DurationType_NEXT_MODE)>>
        /\ (op = "set_hvac_mode" /\ arg_mode # hvac_mode(climate))
              => Len(calls) = 1
        /\ (/\ op = "set_preset_mode"
            /\ arg_mode # preset_mode(climate)
            /\ arg_mode \in {PRESET_HOME, PRESET_AWAY, PRESET_SLEEP, PRESET_NONE})
              => Len(calls) = 1

C9_Witness ==
    /\ op = "set_temperature"
    /\ arg_temperature = Some(0)
    /\ calls = <<set_target(TargetMode_MANUAL, Some(0), DurationType_NEXT_MODE)>>

\* C10: every preset advertised in preset_modes is accepted: for p in
\* preset_modes other than the current preset, set_preset_mode(p) makes a
\* set_target call with the vendor mode mapped to p and does not report an
\* unsupported preset.
C10_AdvertisedPresetsAccepted ==
    (/\ op = "set_preset_mode"
     /\ arg_mode \in preset_modes
     /\ arg_mode # preset_mode(climate)
     /\ arg_mode # ForwardPreset(climate))
    => /\ errors = <<>>
       /\ Len(calls) = 1
       /\ calls[1].name = "set_target"
       /\ calls[1].mode = REVERSE_PRESET_MAPPING[arg_mode]

====
